---- MODULE Spec2Model ----
(***************************************************************************)
(* Mark-granularity subsystem of the MergeTree storage engine.             *)
(*                                                                         *)
(*   src/src/Storages/MergeTree/MergeTreeIndexGranularity.cpp              *)
(*       the shared (base-class) operations, the granularity policy        *)
(*       computeIndexGranularityForBlock and the factory                   *)
(*   src/src/Storages/MergeTree/MergeTreeIndexGranularityConstant.h        *)
(*       the fields and the inline methods of the constant table           *)
(*                                                                         *)
(* The bodies of the two table implementations (the constant table's       *)
(* out-of-line methods and the whole adaptive table) are not among the     *)
(* sources; they are modelled from spec.md sections 3, 4.2, 4.3, 4.4 and 7 *)
(* and marked so in the comments.                                          *)
(***************************************************************************)
EXTENDS Integers, Sequences, FiniteSets, TLC

\* ------------------------------------------------------------ bounds
\* most marks a modelled table holds
MaxMarks == 3
\* largest row count of one mark and largest stride of a constant table
MaxRows == 3
\* largest value of a numeric input of the granularity policy
MaxVal == 4

VARIABLES
    table,      \* the granularity table the writer owns
    prev,       \* the table as it was before the last call
    op,         \* name of the last call ("init" after construction)
    arg,        \* argument of the last call (optimize: 1 when it returned a
                \* replacement, 0 when it returned none)
    err,        \* outcome of the last call: NoError or LOGICAL_ERROR
    appended,   \* [pure, rows]: rows appended so far, while the table was
                \* constructed empty and every call was appendMark(r), r > 0
    input,      \* arguments of a computeIndexGranularityForBlock or
                \* createMergeTreeIndexGranularity call
    output      \* outcome of that call: [state, value]

vars == <<table, prev, op, arg, err, appended, input, output>>

\* ------------------------------------------------------------ size_t
\* size_t arithmetic wraps; the width is scaled down from 64 to 30 bits so
\* that every value stays inside TLC's integers.
SizeModulus == 2 ^ 30

SizeSub(a, b) == (a - b + SizeModulus) % SizeModulus

SizeAdd(a, b) == (a + b) % SizeModulus

Min(a, b) == IF a <= b THEN a ELSE b

Max(a, b) == IF a >= b THEN a ELSE b

RECURSIVE SumSeq(_)
SumSeq(s) == IF s = <<>> THEN 0 ELSE s[1] + SumSeq(Tail(s))

\* ------------------------------------------------------------ outcomes
NoError == "none"

\* ErrorCodes::LOGICAL_ERROR, the code of every exception thrown here
LOGICAL_ERROR == "LOGICAL_ERROR"

\* ------------------------------------------------------------ tables
\* One record shape for both implementations.  An adaptive table uses
\* marks_rows and partial_sums (spec 4.4: the explicit per-mark row counts
\* and the parallel prefix sums); a constant table uses the four scalars of
\* MergeTreeIndexGranularityConstant.
TableRec(kind, rows, sums, g, last, n, final) ==
    [ kind |-> kind,
      marks_rows |-> rows,
      partial_sums |-> sums,
      constant_granularity |-> g,
      last_mark_granularity |-> last,
      num_marks_without_final |-> n,
      has_final_mark |-> final ]

\* std::make_shared<MergeTreeIndexGranularityAdaptive>(): an empty table
MergeTreeIndexGranularityAdaptive == TableRec("adaptive", <<>>, <<>>, 0, 0, 0, FALSE)

\* The four-scalar constructor (spec 6: a reloaded constant table is rebuilt
\* from these four values).
MergeTreeIndexGranularityConstant4(g, last, n, final) ==
    TableRec("constant", <<>>, <<>>, g, last, n, final)

\* The one-argument constructor: an empty table pre-seeded with the stride;
\* num_marks_without_final = 0 and has_final_mark = false are the header's
\* member initialisers.
MergeTreeIndexGranularityConstant(g) ==
    MergeTreeIndexGranularityConstant4(g, g, 0, FALSE)

\* ------------------------------------------------------------ reads
\* hasFinalMark(): the constant table returns its flag (inline in the
\* header); the adaptive table carries a final mark when its last mark is
\* the zero-row sentinel (spec 3).
Constant_hasFinalMark(t) == t.has_final_mark

Adaptive_hasFinalMark(t) ==
    /\ t.marks_rows # <<>>
    /\ t.marks_rows[Len(t.marks_rows)] = 0

hasFinalMark(t) ==
    IF t.kind = "constant" THEN Constant_hasFinalMark(t) ELSE Adaptive_hasFinalMark(t)

\* getMarksCount(): spec 3, getMarksCountWithoutFinal() == getMarksCount() -
\* (1 if hasFinalMark); the adaptive table counts its entries.
getMarksCount(t) ==
    IF t.kind = "constant"
    THEN t.num_marks_without_final + (IF Constant_hasFinalMark(t) THEN 1 ELSE 0)
    ELSE Len(t.marks_rows)

\* empty(): no mark at all
empty(t) == getMarksCount(t) = 0

\* A mark index a read may be given (spec 7: any other index is a logic error).
MarkIndexInRange(t, i) == i >= 0 /\ i < getMarksCount(t)

\* What a read yields when it throws LOGICAL_ERROR instead of returning.
Thrown == -1

\* getMarkRows(i), spec 4.3 for the constant table: the stride for every
\* index but the last real mark, last_mark_granularity for that one, 0 for
\* the final mark.
Constant_getMarkRows(t, i) ==
    IF i + 1 < t.num_marks_without_final THEN t.constant_granularity
    ELSE IF i + 1 = t.num_marks_without_final THEN t.last_mark_granularity
    ELSE 0

Adaptive_getMarkRows(t, i) == t.marks_rows[i + 1]

getMarkRows(t, i) ==
    IF ~MarkIndexInRange(t, i) THEN Thrown
    ELSE IF t.kind = "constant" THEN Constant_getMarkRows(t, i)
    ELSE Adaptive_getMarkRows(t, i)

\* getMarkStartingRow(i), 0 <= i <= getMarksCount().  Constant table, spec
\* 4.3: i * constant_granularity when i < num_marks_without_final - 1,
\* otherwise (num_marks_without_final - 1) * constant_granularity plus the
\* tail mark's rows once i is past the tail mark.  Adaptive table, spec 4.4:
\* read off the prefix sums.
Constant_getMarkStartingRow(t, i) ==
    IF t.num_marks_without_final = 0 THEN 0
    ELSE IF i < t.num_marks_without_final THEN i * t.constant_granularity
    ELSE (t.num_marks_without_final - 1) * t.constant_granularity
             + t.last_mark_granularity

Adaptive_getMarkStartingRow(t, i) == IF i = 0 THEN 0 ELSE t.partial_sums[i]

getMarkStartingRow(t, i) ==
    IF i < 0 \/ i > getMarksCount(t) THEN Thrown
    ELSE IF t.kind = "constant" THEN Constant_getMarkStartingRow(t, i)
    ELSE Adaptive_getMarkStartingRow(t, i)

\* getTotalRows(): the rows of all marks
Constant_getTotalRows(t) ==
    IF t.num_marks_without_final = 0 THEN 0
    ELSE (t.num_marks_without_final - 1) * t.constant_granularity
             + t.last_mark_granularity

Adaptive_getTotalRows(t) ==
    IF t.partial_sums = <<>> THEN 0 ELSE t.partial_sums[Len(t.partial_sums)]

getTotalRows(t) ==
    IF t.kind = "constant" THEN Constant_getTotalRows(t) ELSE Adaptive_getTotalRows(t)

\* getRowsCountInRange(begin, end), begin <= end <= getMarksCount(): the rows
\* of the marks of [begin, end) (spec 4.2).  The constant table computes it
\* in closed form from its scalars, the adaptive table from its prefix sums.
Constant_getRowsCountInRange(t, begin, end) ==
    LET n == t.num_marks_without_final
        full == Min(end, Max(n - 1, 0)) - Min(begin, Max(n - 1, 0))
        tail == IF n > 0 /\ begin <= n - 1 /\ n - 1 < end
                THEN t.last_mark_granularity ELSE 0
    IN  full * t.constant_granularity + tail

Adaptive_getRowsCountInRange(t, begin, end) ==
    Adaptive_getMarkStartingRow(t, end) - Adaptive_getMarkStartingRow(t, begin)

getRowsCountInRange(t, begin, end) ==
    IF end > getMarksCount(t) \/ begin > end \/ begin < 0 THEN Thrown
    ELSE IF t.kind = "constant" THEN Constant_getRowsCountInRange(t, begin, end)
    ELSE Adaptive_getRowsCountInRange(t, begin, end)

\* getMarksCountWithoutFinal that forgets to take the final mark off
getMarksCountWithoutFinal_CountsFinal(t) == getMarksCount(t)

\* MergeTreeIndexGranularity::getMarksCountWithoutFinal
getMarksCountWithoutFinal(t) ==
    LET total == getMarksCount(t)
    IN  IF total = 0 THEN total
        ELSE SizeSub(total, IF hasFinalMark(t) THEN 1 ELSE 0)

\* MergeTreeIndexGranularity::getLastMarkRows
getLastMarkRows(t) == getMarkRows(t, SizeSub(getMarksCount(t), 1))

\* MergeTreeIndexGranularity::getLastNonFinalMarkRows
getLastNonFinalMarkRows(t) ==
    LET last_mark_rows == getLastMarkRows(t)
    IN  IF last_mark_rows # 0 THEN last_mark_rows
        ELSE getMarkRows(t, SizeSub(getMarksCount(t), 2))

\* ------------------------------------------------------------ writes
\* A write returns the table it leaves and the outcome of the call.
Returned(t) == [table |-> t, err |-> NoError]

Throws(t) == [table |-> t, err |-> LOGICAL_ERROR]

\* appendMark that pushes the row count as the prefix sum, without adding
\* the rows before it
Adaptive_appendMark_SumNotAccumulated(t, rows_count) ==
    Returned([t EXCEPT
        !.marks_rows = Append(@, rows_count),
        !.partial_sums = Append(@, rows_count)])

\* appendMark(rows_count), adaptive table (spec 4.4): pushes a new entry and
\* its prefix sum.
Adaptive_appendMark(t, rows_count) ==
    Returned([t EXCEPT
        !.marks_rows = Append(@, rows_count),
        !.partial_sums = Append(@, SizeAdd(Adaptive_getTotalRows(t), rows_count))])

\* appendMark(rows_count), constant table (spec 3, 4.2, 7): a zero-row mark
\* is the final sentinel, which needs a data mark before it; any other mark
\* becomes the new last real mark.
Constant_appendMark(t, rows_count) ==
    IF rows_count = 0
    THEN IF t.num_marks_without_final = 0 THEN Throws(t)
         ELSE Returned([t EXCEPT !.has_final_mark = TRUE])
    ELSE Returned([t EXCEPT
             !.num_marks_without_final = @ + 1,
             !.last_mark_granularity = rows_count])

appendMark(t, rows_count) ==
    IF t.kind = "constant" THEN Constant_appendMark(t, rows_count)
    ELSE Adaptive_appendMark(t, rows_count)

\* adjustLastMark(rows_count) (spec 4.2, 4.4): overwrites the row count of
\* the most recently appended granule; the adaptive table also updates the
\* prefix sum of that granule.  With no granule there is nothing to adjust.
Adaptive_adjustLastMark_StaleSum(t, rows_count) ==
    Returned([t EXCEPT !.marks_rows[Len(t.marks_rows)] = rows_count])

Adaptive_adjustLastMark(t, rows_count) ==
    LET k == Len(t.marks_rows)
    IN  Returned([t EXCEPT
            !.marks_rows[k] = rows_count,
            !.partial_sums[k] = SizeAdd(SizeSub(@, t.marks_rows[k]), rows_count)])

Constant_adjustLastMark(t, rows_count) ==
    Returned([t EXCEPT !.last_mark_granularity = rows_count])

adjustLastMark(t, rows_count) ==
    IF empty(t) THEN Throws(t)
    ELSE IF t.kind = "constant" THEN Constant_adjustLastMark(t, rows_count)
    ELSE Adaptive_adjustLastMark(t, rows_count)

\* addRowsToLastMark without its hasFinalMark() check
addRowsToLastMark_NoFinalCheck(t, rows_count) ==
    IF empty(t) THEN appendMark(t, rows_count)
    ELSE adjustLastMark(t, SizeAdd(getLastMarkRows(t), rows_count))

\* addRowsToLastMark without its empty() branch
addRowsToLastMark_NoEmptyBranch(t, rows_count) ==
    IF hasFinalMark(t) THEN Throws(t)
    ELSE adjustLastMark(t, SizeAdd(Max(getLastMarkRows(t), 0), rows_count))

\* addRowsToLastMark that overwrites the last mark instead of adding to it
addRowsToLastMark_Overwrites(t, rows_count) ==
    IF hasFinalMark(t) THEN Throws(t)
    ELSE IF empty(t) THEN appendMark(t, rows_count)
    ELSE adjustLastMark(t, rows_count)

\* MergeTreeIndexGranularity::addRowsToLastMark
addRowsToLastMark(t, rows_count) ==
    IF hasFinalMark(t) THEN Throws(t)
    ELSE IF empty(t) THEN appendMark(t, rows_count)
    ELSE adjustLastMark(t, SizeAdd(getLastMarkRows(t), rows_count))

\* ------------------------------------------------------------ optimize
\* optimize() returns a replacement table or nullptr (no replacement; the
\* caller keeps its table).
Replacement(u) == [replaced |-> TRUE, table |-> u]

NoReplacement(t) == [replaced |-> FALSE, table |-> t]

\* a constant table's optimize() that hands back a fresh, empty table
Constant_optimize_Collapses(t) ==
    Replacement(MergeTreeIndexGranularityConstant(t.constant_granularity))

\* MergeTreeIndexGranularityConstant::optimize: return nullptr
Constant_optimize(t) == NoReplacement(t)

\* optimize(), adaptive table (spec 4.4): when every non-final granule has
\* the same size, a constant table built from that stride, with as many
\* marks and the same final mark; otherwise nothing.
Adaptive_optimize(t) ==
    LET marks_count == getMarksCountWithoutFinal(t)
    IN  IF marks_count = 0 THEN NoReplacement(t)
        ELSE IF \A i \in 0..(marks_count - 1) : getMarkRows(t, i) = getMarkRows(t, 0)
        THEN Replacement(MergeTreeIndexGranularityConstant4(
                 getMarkRows(t, 0), getMarkRows(t, marks_count - 1),
                 marks_count, hasFinalMark(t)))
        ELSE NoReplacement(t)

optimize(t) ==
    IF t.kind = "constant" THEN Constant_optimize(t) ELSE Adaptive_optimize(t)

\* ------------------------------------------------------------ the policy
\* A size_t division.  Dividing by zero is undefined behaviour: the build
\* either traps (DivisionTraps) or carries on with some quotient.
Quotients(a, b) == IF b = 0 THEN 0..MaxVal ELSE {a \div b}

DivisionTraps(a, b) == b = 0

\* the chain with the can_use_adaptive_index_granularity test left out
granularityBeforeClamp_IgnoresAdaptiveFlag(rows_in_block, bytes_in_block, index_granularity_bytes, fixed_index_granularity_rows, blocks_are_granules, can_use_adaptive_index_granularity) ==
    IF blocks_are_granules
    THEN {rows_in_block}
    ELSE IF bytes_in_block >= index_granularity_bytes
    THEN UNION { Quotients(rows_in_block, granules_in_block) :
                   granules_in_block \in Quotients(bytes_in_block, index_granularity_bytes) }
    ELSE { index_granularity_bytes \div Max(size_of_row_in_bytes, 1) :
             size_of_row_in_bytes \in Quotients(bytes_in_block, rows_in_block) }

\* computeIndexGranularityForBlock, the if/else chain that first assigns
\* index_granularity_for_block: the values it can assign.
granularityBeforeClamp(rows_in_block, bytes_in_block, index_granularity_bytes, fixed_index_granularity_rows, blocks_are_granules, can_use_adaptive_index_granularity) ==
    IF ~can_use_adaptive_index_granularity
    THEN {fixed_index_granularity_rows}
    ELSE IF blocks_are_granules
    THEN {rows_in_block}
    ELSE IF bytes_in_block >= index_granularity_bytes
    THEN UNION { Quotients(rows_in_block, granules_in_block) :
                   granules_in_block \in Quotients(bytes_in_block, index_granularity_bytes) }
    ELSE { index_granularity_bytes \div Max(size_of_row_in_bytes, 1) :
             size_of_row_in_bytes \in Quotients(bytes_in_block, rows_in_block) }

\* Whether that chain divides by zero on the branch it takes.
granularityDividesByZero(rows_in_block, bytes_in_block, index_granularity_bytes, fixed_index_granularity_rows, blocks_are_granules, can_use_adaptive_index_granularity) ==
    /\ can_use_adaptive_index_granularity
    /\ ~blocks_are_granules
    /\ IF bytes_in_block >= index_granularity_bytes
       THEN DivisionTraps(bytes_in_block, index_granularity_bytes)
       ELSE DivisionTraps(bytes_in_block, rows_in_block)

\* the clamp left out
clampToFixed_Never(fixed_index_granularity_rows, blocks_are_granules, index_granularity_for_block) ==
    index_granularity_for_block

\* the clamp applied to whole-block granules too
clampToFixed_Always(fixed_index_granularity_rows, blocks_are_granules, index_granularity_for_block) ==
    Min(fixed_index_granularity_rows, index_granularity_for_block)

\* "We should be less or equal than fixed index granularity.  But if block
\* size is a granule size then do not adjust it."
clampToFixed(fixed_index_granularity_rows, blocks_are_granules, index_granularity_for_block) ==
    IF ~blocks_are_granules
    THEN Min(fixed_index_granularity_rows, index_granularity_for_block)
    ELSE index_granularity_for_block

\* "Very rare case when index granularity bytes less than single row."
floorToOne(index_granularity_for_block) ==
    IF index_granularity_for_block = 0 THEN 1 ELSE index_granularity_for_block

\* computeIndexGranularityForBlock: the outcomes of one call, a returned
\* value or a fault of the division by zero.
computeIndexGranularityForBlock(rows_in_block, bytes_in_block, index_granularity_bytes, fixed_index_granularity_rows, blocks_are_granules, can_use_adaptive_index_granularity) ==
    { [state |-> "returned",
       value |-> floorToOne(clampToFixed(fixed_index_granularity_rows, blocks_are_granules, v))] :
        v \in granularityBeforeClamp(rows_in_block, bytes_in_block, index_granularity_bytes,
                                     fixed_index_granularity_rows, blocks_are_granules,
                                     can_use_adaptive_index_granularity) }
    \cup
    (IF granularityDividesByZero(rows_in_block, bytes_in_block, index_granularity_bytes,
                                 fixed_index_granularity_rows, blocks_are_granules,
                                 can_use_adaptive_index_granularity)
     THEN {[state |-> "fault", value |-> 0]}
     ELSE {})

\* ------------------------------------------------------------ the factory
\* createMergeTreeIndexGranularity: the outcomes of one call, a returned
\* table or the fault of the policy's division by zero.  settings holds
\* index_granularity, index_granularity_bytes and
\* use_const_adaptive_granularity; info holds mark_type.adaptive and
\* mark_type.part_type.
createMergeTreeIndexGranularity(rows_in_block, bytes_in_block, settings, info, blocks_are_granules) ==
    LET use_adaptive_granularity == info.mark_type.adaptive
        use_const_adaptive_granularity == settings.use_const_adaptive_granularity
        is_compact_part == info.mark_type.part_type = "Compact"
    IN  IF \/ blocks_are_granules
           \/ is_compact_part
           \/ (use_adaptive_granularity /\ ~use_const_adaptive_granularity)
        THEN {[state |-> "returned", table |-> MergeTreeIndexGranularityAdaptive]}
        ELSE { IF computed.state = "returned"
               THEN [state |-> "returned",
                     table |-> MergeTreeIndexGranularityConstant(computed.value)]
               ELSE [state |-> "fault", table |-> MergeTreeIndexGranularityAdaptive] :
                 computed \in computeIndexGranularityForBlock(
                                  rows_in_block, bytes_in_block,
                                  settings.index_granularity_bytes,
                                  settings.index_granularity,
                                  blocks_are_granules, use_adaptive_granularity) }

\* ------------------------------------------------------------ the writer
\* Tables a part starts from: the factory's empty adaptive table, the
\* factory's constant table with a stride of at least one row, or a constant
\* table reloaded from its four scalars (spec 6; spec 7 rules out a final
\* mark with no data mark).
InitialTables ==
    {MergeTreeIndexGranularityAdaptive}
    \cup {MergeTreeIndexGranularityConstant(g) : g \in 1..MaxRows}
    \cup {MergeTreeIndexGranularityConstant4(g, last, n, final) :
            g \in 1..MaxRows, last \in 0..MaxRows, n \in 1..MaxMarks,
            final \in BOOLEAN}

NoInput == [rows_in_block |-> 0, bytes_in_block |-> 0, index_granularity_bytes |-> 0,
            fixed_index_granularity_rows |-> 0, blocks_are_granules |-> FALSE,
            can_use_adaptive_index_granularity |-> FALSE]

NoOutput == [state |-> "idle", value |-> 0]

Init ==
    /\ table \in InitialTables
    /\ prev = table
    /\ op = "init"
    /\ arg = 0
    /\ err = NoError
    /\ appended = [pure |-> empty(table), rows |-> <<>>]
    /\ input = NoInput
    /\ output = NoOutput

\* The call `name(a)` with result r.
Call(name, a, r) ==
    /\ table' = r.table
    /\ prev' = table
    /\ op' = name
    /\ arg' = a
    /\ err' = r.err
    /\ appended' =
         IF appended.pure /\ name = "appendMark" /\ a > 0 /\ r.err = NoError
         THEN [pure |-> TRUE, rows |-> Append(appended.rows, a)]
         ELSE [pure |-> FALSE, rows |-> <<>>]
    /\ UNCHANGED <<input, output>>

\* The writer records a granule (or the final sentinel, rows_count = 0).
\* Nothing is appended behind the final mark (spec 3).
AppendMark ==
    \E rows_count \in 0..MaxRows :
        /\ ~hasFinalMark(table)
        /\ getMarksCount(table) < MaxMarks
        /\ Call("appendMark", rows_count, appendMark(table, rows_count))

\* The writer revises the size of its last granule before sealing it.
AdjustLastMark ==
    \E rows_count \in 0..MaxRows :
        /\ ~empty(table)
        /\ ~hasFinalMark(table)
        /\ Call("adjustLastMark", rows_count, adjustLastMark(table, rows_count))

\* The writer adds rows to its last granule; callable in every state.
AddRowsToLastMark ==
    \E rows_count \in 0..MaxRows :
        /\ hasFinalMark(table) \/ empty(table)
             \/ getLastMarkRows(table) + rows_count <= MaxRows
        /\ Call("addRowsToLastMark", rows_count, addRowsToLastMark(table, rows_count))

\* The part's owner calls optimize() and swaps a returned replacement in for
\* its table in one step; arg records whether a replacement was returned.
Optimize ==
    LET optimized == optimize(table)
    IN  Call("optimize", IF optimized.replaced THEN 1 ELSE 0, Returned(optimized.table))

Next == AppendMark \/ AdjustLastMark \/ AddRowsToLastMark \/ Optimize

Spec == Init /\ [][Next]_vars

\* ------------------------------------------------------------ policy calls
\* The two worked examples of the policy (spec 8).
ExampleInputs ==
    { [rows_in_block |-> 100, bytes_in_block |-> 1000, index_granularity_bytes |-> 100,
       fixed_index_granularity_rows |-> 50, blocks_are_granules |-> FALSE,
       can_use_adaptive_index_granularity |-> TRUE],
      [rows_in_block |-> 2, bytes_in_block |-> 10, index_granularity_bytes |-> 100,
       fixed_index_granularity_rows |-> 50, blocks_are_granules |-> FALSE,
       can_use_adaptive_index_granularity |-> TRUE] }

PolicyInputs ==
    [ rows_in_block : 0..MaxVal, bytes_in_block : 0..MaxVal,
      index_granularity_bytes : 0..MaxVal, fixed_index_granularity_rows : 0..MaxVal,
      blocks_are_granules : BOOLEAN, can_use_adaptive_index_granularity : BOOLEAN ]
    \cup ExampleInputs

PolicyInit ==
    /\ input \in PolicyInputs
    /\ output = NoOutput
    /\ table = MergeTreeIndexGranularityAdaptive
    /\ prev = table
    /\ op = "init"
    /\ arg = 0
    /\ err = NoError
    /\ appended = [pure |-> TRUE, rows |-> <<>>]

\* One call of computeIndexGranularityForBlock on the drawn arguments.
Compute ==
    /\ output.state = "idle"
    /\ output' \in computeIndexGranularityForBlock(
                      input.rows_in_block, input.bytes_in_block,
                      input.index_granularity_bytes, input.fixed_index_granularity_rows,
                      input.blocks_are_granules, input.can_use_adaptive_index_granularity)
    /\ UNCHANGED <<table, prev, op, arg, err, appended, input>>

PolicyNext == Compute

PolicySpec == PolicyInit /\ [][PolicyNext]_vars

\* ============================================================ claims
\* The marks of table t as the readers see them.
MarkIndices(t) == 0..(getMarksCount(t) - 1)

SameMarks(t, u) ==
    /\ getMarksCount(t) = getMarksCount(u)
    /\ getTotalRows(t) = getTotalRows(u)
    /\ \A i \in MarkIndices(t) : getMarkRows(t, i) = getMarkRows(u, i)

\* C1: addRowsToLastMark(n) on a table with a final mark fails with a logic
\* error and leaves getMarksCount(), every getMarkRows(i) and getTotalRows()
\* as they were.
C1_AddRowsFailsOnFinalMark ==
    (op = "addRowsToLastMark" /\ hasFinalMark(prev))
        => (err = LOGICAL_ERROR /\ SameMarks(table, prev))

C1_Witness ==
    /\ op = "addRowsToLastMark"
    /\ hasFinalMark(prev)
    /\ arg > 0
    /\ getMarksCount(prev) >= 2
    /\ err = LOGICAL_ERROR

\* C2: on an empty table with no final mark addRowsToLastMark(n) leaves the
\* table appendMark(n) leaves: same getMarksCount(), getTotalRows(),
\* hasFinalMark() and getMarkRows(i).
C2_AddRowsOnEmptyIsAppend ==
    (op = "addRowsToLastMark" /\ empty(prev) /\ ~hasFinalMark(prev))
        => /\ SameMarks(table, appendMark(prev, arg).table)
           /\ hasFinalMark(table) = hasFinalMark(appendMark(prev, arg).table)

C2_Witness ==
    /\ op = "addRowsToLastMark"
    /\ empty(prev)
    /\ ~hasFinalMark(prev)
    /\ arg > 0
    /\ getMarksCount(table) = 1
    /\ getTotalRows(table) = arg

\* Sum of the first i appended row counts.
AppendedBefore(i) == SumSeq(SubSeq(appended.rows, 1, i))

AppendedShape ==
    /\ getMarksCount(table) = Len(appended.rows)
    /\ getTotalRows(table) = SumSeq(appended.rows)
    /\ \A i \in 0..Len(appended.rows) : getMarkStartingRow(table, i) = AppendedBefore(i)

RECURSIVE MarkRowsSum(_, _, _)
MarkRowsSum(t, a, b) ==
    IF a >= b THEN 0 ELSE getMarkRows(t, a) + MarkRowsSum(t, a + 1, b)

\* C4: for all 0 <= a <= b <= getMarksCount(), getRowsCountInRange(a, b) is
\* getMarkStartingRow(b) - getMarkStartingRow(a) and is the sum of
\* getMarkRows(j), a <= j < b.
C4_RowsCountInRange ==
    \A b \in 0..getMarksCount(table) : \A a \in 0..b :
        /\ getRowsCountInRange(table, a, b)
             = getMarkStartingRow(table, b) - getMarkStartingRow(table, a)
        /\ getRowsCountInRange(table, a, b) = MarkRowsSum(table, a, b)

C4_Witness ==
    /\ hasFinalMark(table)
    /\ getMarksCount(table) >= 3
    /\ op = "appendMark"
    /\ getRowsCountInRange(table, 1, getMarksCount(table)) > 0
    /\ getRowsCountInRange(table, 0, 1) # getRowsCountInRange(table, 1, 2)

\* The policy call has ended; it has returned a value; it ran in adaptive mode.
Computed == output.state # "idle"

CallReturned == output.state = "returned"

AdaptiveEnabled == input.can_use_adaptive_index_granularity

\* C5, as claimed: computeIndexGranularityForBlock completes for every
\* combination of inputs and returns a value >= 1.
C5_NeverFails == Computed => (CallReturned /\ output.value >= 1)

\* C6, as claimed: with blocks_are_granules false the returned value is never
\* greater than fixed_index_granularity_rows.
C6_Original ==
    (CallReturned /\ ~input.blocks_are_granules)
        => output.value <= input.fixed_index_granularity_rows

\* C6, amended: with blocks_are_granules false the returned value is never
\* greater than fixed_index_granularity_rows, except that it is 1 when
\* fixed_index_granularity_rows is 0.
C6_ClampedToFixed ==
    (CallReturned /\ ~input.blocks_are_granules)
        => output.value <= Max(input.fixed_index_granularity_rows, 1)

C6_Witness ==
    /\ CallReturned
    /\ AdaptiveEnabled
    /\ ~input.blocks_are_granules
    /\ input.rows_in_block > 0
    /\ input.bytes_in_block < input.index_granularity_bytes
    /\ input.index_granularity_bytes > input.fixed_index_granularity_rows
    /\ input.bytes_in_block <= input.rows_in_block
    /\ input.fixed_index_granularity_rows >= 2
    /\ output.value = input.fixed_index_granularity_rows

\* C7, as claimed: with adaptive mode disabled the call returns exactly
\* fixed_index_granularity_rows.
C7_Original ==
    (Computed /\ ~AdaptiveEnabled)
        => (CallReturned /\ output.value = input.fixed_index_granularity_rows)

\* C7, amended: with adaptive mode disabled the call returns
\* fixed_index_granularity_rows when that is at least 1, and 1 when it is 0.
C7_FixedWhenNotAdaptive ==
    (Computed /\ ~AdaptiveEnabled)
        => /\ CallReturned
           /\ output.value = (IF input.fixed_index_granularity_rows = 0 THEN 1
                              ELSE input.fixed_index_granularity_rows)

C7_Witness ==
    /\ CallReturned
    /\ ~AdaptiveEnabled
    /\ input.blocks_are_granules
    /\ input.fixed_index_granularity_rows >= 2
    /\ input.rows_in_block # input.fixed_index_granularity_rows
    /\ output.value = input.fixed_index_granularity_rows

\* C8, as claimed: with adaptive mode enabled and blocks_are_granules true
\* the call returns exactly rows_in_block.
C8_Original ==
    (Computed /\ AdaptiveEnabled /\ input.blocks_are_granules)
        => (CallReturned /\ output.value = input.rows_in_block)

\* C8, amended: with adaptive mode enabled and blocks_are_granules true the
\* call returns rows_in_block when that is at least 1, and 1 when it is 0;
\* the value is not clamped to fixed_index_granularity_rows.
C8_WholeBlockGranule ==
    (Computed /\ AdaptiveEnabled /\ input.blocks_are_granules)
        => /\ CallReturned
           /\ output.value = (IF input.rows_in_block = 0 THEN 1
                              ELSE input.rows_in_block)

C8_Witness ==
    /\ CallReturned
    /\ AdaptiveEnabled
    /\ input.blocks_are_granules
    /\ output.value = input.rows_in_block
    /\ output.value > input.fixed_index_granularity_rows

\* C9, as claimed: with adaptive mode enabled, blocks_are_granules false and
\* bytes_in_block >= index_granularity_bytes, granules = bytes_in_block /
\* index_granularity_bytes is defined and >= 1 and the call returns
\* min(fixed_index_granularity_rows, rows_in_block / granules), or 1 when
\* that is 0.
C9_SplitEvenly ==
    ( /\ Computed
      /\ AdaptiveEnabled
      /\ ~input.blocks_are_granules
      /\ input.bytes_in_block >= input.index_granularity_bytes )
        => /\ CallReturned
           /\ input.index_granularity_bytes # 0
           /\ input.bytes_in_block \div input.index_granularity_bytes >= 1
           /\ LET granules == input.bytes_in_block \div input.index_granularity_bytes
                  m == Min(input.fixed_index_granularity_rows,
                           input.rows_in_block \div granules)
              IN  output.value = (IF m = 0 THEN 1 ELSE m)

\* C10, as claimed: with adaptive mode enabled, blocks_are_granules false and
\* bytes_in_block < index_granularity_bytes, the call returns
\* min(fixed_index_granularity_rows, index_granularity_bytes /
\* max(bytes_in_block / rows_in_block, 1)), or 1 when that is 0, for every
\* block of the branch.
C10_PerRowEstimate ==
    ( /\ Computed
      /\ AdaptiveEnabled
      /\ ~input.blocks_are_granules
      /\ input.bytes_in_block < input.index_granularity_bytes )
        => /\ CallReturned
           /\ input.rows_in_block # 0
           /\ LET per_row == Max(input.bytes_in_block \div input.rows_in_block, 1)
                  m == Min(input.fixed_index_granularity_rows,
                           input.index_granularity_bytes \div per_row)
              IN  output.value = (IF m = 0 THEN 1 ELSE m)

\* ------------------------------------------------------------ factory calls
FactoryInputs ==
    [ rows_in_block : 0..MaxVal, bytes_in_block : 0..MaxVal,
      settings : [ index_granularity : 0..MaxVal,
                   index_granularity_bytes : 0..MaxVal,
                   use_const_adaptive_granularity : BOOLEAN ],
      info : [ mark_type : [ adaptive : BOOLEAN, part_type : {"Wide", "Compact"} ] ],
      blocks_are_granules : BOOLEAN ]

FactoryInit ==
    /\ input \in FactoryInputs
    /\ output = NoOutput
    /\ table = MergeTreeIndexGranularityAdaptive
    /\ prev = table
    /\ op = "init"
    /\ arg = 0
    /\ err = NoError
    /\ appended = [pure |-> TRUE, rows |-> <<>>]

\* One call of createMergeTreeIndexGranularity on the drawn arguments; the
\* returned table becomes the part's table.
Create ==
    /\ output.state = "idle"
    /\ \E created \in createMergeTreeIndexGranularity(
                          input.rows_in_block, input.bytes_in_block,
                          input.settings, input.info, input.blocks_are_granules) :
           /\ output' = [state |-> created.state, value |-> 0]
           /\ table' = created.table
    /\ UNCHANGED <<prev, op, arg, err, appended, input>>

FactoryNext == Create

FactorySpec == FactoryInit /\ [][FactoryNext]_vars

\* The factory's choice of the adaptive table, and what the policy returns
\* for the factory's arguments.
FactoryPicksAdaptive ==
    \/ input.blocks_are_granules
    \/ input.info.mark_type.part_type = "Compact"
    \/ (input.info.mark_type.adaptive /\ ~input.settings.use_const_adaptive_granularity)

FactoryPolicyOutcomes ==
    computeIndexGranularityForBlock(
        input.rows_in_block, input.bytes_in_block,
        input.settings.index_granularity_bytes, input.settings.index_granularity,
        input.blocks_are_granules, input.info.mark_type.adaptive)

\* C11, as claimed: createMergeTreeIndexGranularity returns an empty adaptive
\* table exactly when blocks_are_granules is set, or the part is compact, or
\* the mark type is adaptive and use_const_adaptive_granularity is false; in
\* every other case it returns a constant table, empty, whose stride is the
\* value computeIndexGranularityForBlock returns for the same arguments with
\* adaptive sizing enabled iff the mark type is adaptive.
C11_FactoryChoice ==
    Computed =>
        /\ CallReturned
        /\ IF FactoryPicksAdaptive
           THEN table = MergeTreeIndexGranularityAdaptive
           ELSE /\ table.kind = "constant"
                /\ empty(table)
                /\ \E computed \in FactoryPolicyOutcomes :
                       /\ computed.state = "returned"
                       /\ table.constant_granularity = computed.value

\* C12, as claimed: on every table with a mark getLastNonFinalMarkRows()
\* returns a row count: getLastMarkRows() when the last mark holds rows, and
\* the rows of the second-to-last mark, getMarkRows(getMarksCount() - 2),
\* when the last mark is the zero-row final sentinel.
C12_LastNonFinalMarkRows ==
    ~empty(table) =>
        /\ getLastNonFinalMarkRows(table) # Thrown
        /\ getLastMarkRows(table) # 0
             => getLastNonFinalMarkRows(table) = getLastMarkRows(table)
        /\ (hasFinalMark(table) /\ getLastMarkRows(table) = 0)
             => /\ getMarksCount(table) >= 2
                /\ getLastNonFinalMarkRows(table)
                     = getMarkRows(table, getMarksCount(table) - 2)

\* C13: in every table state, the empty table included,
\* getMarksCountWithoutFinal() is getMarksCount() less one when the table
\* has a final mark, and is never below 0.
C13_MarksCountWithoutFinal ==
    /\ getMarksCountWithoutFinal(table)
         = getMarksCount(table) - (IF hasFinalMark(table) THEN 1 ELSE 0)
    /\ getMarksCount(table) - (IF hasFinalMark(table) THEN 1 ELSE 0) >= 0

C13_Witness ==
    /\ hasFinalMark(table)
    /\ op = "appendMark"
    /\ getMarksCount(table) >= 3
    /\ getMarksCountWithoutFinal(table) = getMarksCount(table) - 1

\* What a reader can see of tables t and u is the same.
SameToReaders(t, u) ==
    /\ SameMarks(t, u)
    /\ hasFinalMark(t) = hasFinalMark(u)
    /\ \A i \in 0..getMarksCount(t) : getMarkStartingRow(t, i) = getMarkStartingRow(u, i)

\* C14: a replacement optimize() returns for an adaptive table agrees with
\* the original on getMarksCount(), getTotalRows(), hasFinalMark(),
\* getMarkRows(i) and getMarkStartingRow(i); optimize() on a constant table
\* returns no replacement and leaves the table as it is.
C14_OptimizeIsTransparent ==
    op = "optimize" =>
        /\ prev.kind = "constant" => (arg = 0 /\ table = prev)
        /\ (prev.kind = "adaptive" /\ arg = 1) => SameToReaders(table, prev)
        /\ arg = 0 => table = prev

C14_Witness ==
    /\ op = "optimize"
    /\ arg = 1
    /\ prev.kind = "adaptive"
    /\ table.kind = "constant"
    /\ hasFinalMark(prev)
    /\ getMarksCount(prev) >= 3
    /\ getTotalRows(table) >= 2

\* C15, first half: on a non-empty table with no final mark
\* addRowsToLastMark(n) keeps getMarksCount() and every getMarkRows(i),
\* i < getMarksCount() - 1, and raises getLastMarkRows() and getTotalRows()
\* by exactly n.
AddRowsOnlyToLastMark ==
    (op = "addRowsToLastMark" /\ ~empty(prev) /\ ~hasFinalMark(prev))
        => /\ err = NoError
           /\ getMarksCount(table) = getMarksCount(prev)
           /\ \A i \in 0..(getMarksCount(prev) - 2) :
                  getMarkRows(table, i) = getMarkRows(prev, i)
           /\ getLastMarkRows(table) = getLastMarkRows(prev) + arg
           /\ getTotalRows(table) = getTotalRows(prev) + arg

NeverShrinks ==
    /\ getMarksCount(table) >= getMarksCount(prev)
    /\ getTotalRows(table) >= getTotalRows(prev)

C16_LastMarkIndexInRange ==
    /\ MarkIndexInRange(table, SizeSub(getMarksCount(table), 1))
    /\ getLastMarkRows(table) = 0
         => MarkIndexInRange(table, SizeSub(getMarksCount(table), 2))

====
